---- MODULE Spec2Model ----
(***************************************************************************)
(* Model of the Varuna lookup range checker                                *)
(* (std/rangecheck/varuna/rangecheck_varuna.go) and of the export helpers  *)
(* (std/utils/export_utils/export_utils.go).                               *)
(*                                                                         *)
(* Spec      : the collector state machine of one circuit build            *)
(* SpecOpt   : optimalWidth / nbR1CSConstraints as a pure function         *)
(* SpecHint  : DecomposeHint as a pure function                            *)
(* SpecExport: SerializeR1CS / SerializeAssignment / SerializeLookup       *)
(***************************************************************************)
EXTENDS Integers, Sequences, FiniteSets, TLC

VARIABLES
    kvChecker,      \* kv.GetKeyValue(ctxCheckerKey{}) # nil
    nbCheckers,     \* number of varunaChecker objects allocated
    deferred,       \* number of callbacks registered with Compiler().Defer
    collected,      \* varunaChecker.collected
    closed,         \* varunaChecker.closed
    lookups,        \* varunaChecker.lookups
    hints,          \* builder: the NewHint calls made, in order
    constraints,    \* builder: the AssertIsEqual constraints emitted, in order
    nbWires,        \* builder: next free wire id
    optLog,         \* the values returned by getOptimalBasewidth, in order
    finalizeErr,    \* what the handleVarunaRangeCheck call that closed returned
    lastOp,         \* the operation that ran last
    result,         \* its outcome
    ret,            \* <<the Lookup GetLookupByBuilder returned>>, <<>> if none
    handle,         \* the varunaChecker object the last NewVarunaRangechecker
                    \* returned, numbered by allocation (0: none yet)
    optIn, optOut,  \* SpecOpt: the batch, the width returned
    hintIn, hintOut,\* SpecHint: inputs/outputs of DecomposeHint
    expIn, expOut   \* SpecExport: inputs/outputs of the Serialize functions

collectorVars == <<kvChecker, nbCheckers, deferred, collected, closed, lookups,
                   hints, constraints, nbWires, optLog, finalizeErr, lastOp,
                   result, ret, handle>>
optVars == <<optIn, optOut>>
hintVars == <<hintIn, hintOut>>
expVars == <<expIn, expOut>>
vars == <<collectorVars, optVars, hintVars, expVars>>

----------------------------------------------------------------------------
(* Bounds *)
MaxReq == 3          \* at most this many Check calls per build
MaxOptReq == 3       \* SpecOpt: batch length
MaxHintBits == 6     \* SpecHint: largest varSize
MaxW == 3            \* SpecExport: largest witness length
MaxMembers == 2      \* SpecExport: largest number of lookup members
MaxFailAt == 2       \* Finalize: the entry at which resolution may fail (0: none)

CheckBits == {8, 16, 24}                \* bit widths passed to Check
InputVars == {1, 2}                     \* wires of the circuit inputs a Check refers to
OptBits == {1, 3, 8, 16, 64, 253}       \* bit widths of SpecOpt batches

NoValue == "none"

----------------------------------------------------------------------------
(* Pure helpers *)

RECURSIVE Pow(_, _)
Pow(b, e) == IF e = 0 THEN 1 ELSE b * Pow(b, e - 1)

\* 1 << n
Lsh1(n) == Pow(2, n)

decompSize(varSize, limbSize) == (varSize + limbSize - 1) \div limbSize

RECURSIVE nbDecomposedLoop(_, _, _)
nbDecomposedLoop(i, baseLength, coll) ==
    IF i > Len(coll) THEN 0
    ELSE decompSize(coll[i].bits, baseLength) + nbDecomposedLoop(i + 1, baseLength, coll)

\* mutant: the table rows are left out of the count
nbR1CSConstraintsNoTable(baseLength, coll) ==
    nbDecomposedLoop(1, baseLength, coll) + Len(coll) + 1

nbR1CSConstraints(baseLength, coll) ==
    LET nbDecomposed == nbDecomposedLoop(1, baseLength, coll)
        eqs == Len(coll)
        nbRight == nbDecomposed
        nbleft == Lsh1(baseLength)
    IN nbleft + nbRight + eqs + 1

\* math.MaxInt64, scaled to the largest integer TLC represents
MathMaxInt == 2147483647
MinWidth == 2
EndWidth == 18

\* mutant: a later width of equal count replaces the earlier one
optimalWidthBetterOrEqual(current, min) == current <= min

optimalWidthBetter(current, min) == current < min

RECURSIVE optimalWidthLoop(_, _, _, _)
optimalWidthLoop(j, min, minVal, coll) ==
    IF ~(j < EndWidth) THEN minVal
    ELSE LET current == nbR1CSConstraints(j, coll)
         IN IF optimalWidthBetter(current, min)
            THEN optimalWidthLoop(j + 1, current, j, coll)
            ELSE optimalWidthLoop(j + 1, min, minVal, coll)

optimalWidth(coll) == optimalWidthLoop(MinWidth, MathMaxInt, 0, coll)

getOptimalBasewidth(coll) == optimalWidth(coll)

----------------------------------------------------------------------------
(* The collector *)

EmptyLookup == [NbTable |-> 0, A |-> <<>>]

CollectorInit ==
    /\ kvChecker = FALSE
    /\ nbCheckers = 0
    /\ deferred = 0
    /\ collected = <<>>
    /\ closed = FALSE
    /\ lookups = EmptyLookup
    /\ hints = <<>>
    /\ constraints = <<>>
    /\ nbWires = Cardinality(InputVars) + 1
    /\ optLog = <<>>
    /\ finalizeErr = NoValue
    /\ lastOp = "Init"
    /\ result = NoValue
    /\ ret = <<>>
    /\ handle = 0

OptIdle == optIn = <<>> /\ optOut = <<>>
HintIdle == hintIn = NoValue /\ hintOut = <<>>
ExpIdle == expIn = [fn |-> NoValue] /\ expOut = <<>>

Init == CollectorInit /\ OptIdle /\ HintIdle /\ ExpIdle

\* mutant: the key-value slot is not consulted, every call makes a collector
NewVarunaRangecheckerAlwaysNew ==
    /\ lastOp' = "New"
    /\ result' = "ok"
    /\ kvChecker' = TRUE
    /\ nbCheckers' = nbCheckers + 1
    /\ deferred' = deferred + 1
    /\ handle' = nbCheckers + 1
    /\ UNCHANGED <<collected, closed, lookups, hints, constraints, nbWires,
                   optLog, finalizeErr, ret>>
    /\ UNCHANGED <<optVars, hintVars, expVars>>

\* the slot holds the collector allocated last (SetKeyValue follows each
\* allocation), so a stored collector is number nbCheckers
NewVarunaRangechecker ==
    /\ lastOp' = "New"
    /\ result' = "ok"
    /\ IF kvChecker
       THEN /\ handle' = nbCheckers
            /\ UNCHANGED <<kvChecker, nbCheckers, deferred>>
       ELSE /\ kvChecker' = TRUE
            /\ nbCheckers' = nbCheckers + 1
            /\ deferred' = deferred + 1
            /\ handle' = nbCheckers + 1
    /\ UNCHANGED <<collected, closed, lookups, hints, constraints, nbWires,
                   optLog, finalizeErr, ret>>
    /\ UNCHANGED <<optVars, hintVars, expVars>>

\* mutant: the closed flag is not tested
CheckWithoutClosedTest(in, bits) ==
    /\ kvChecker
    /\ lastOp' = "Check"
    /\ Len(collected) < MaxReq
    /\ result' = "ok"
    /\ collected' = Append(collected, [v |-> in, bits |-> bits])
    /\ UNCHANGED <<kvChecker, nbCheckers, deferred, closed, lookups, hints,
                   constraints, nbWires, optLog, finalizeErr, ret, handle>>
    /\ UNCHANGED <<optVars, hintVars, expVars>>

Check(in, bits) ==
    /\ kvChecker
    /\ lastOp' = "Check"
    /\ IF closed
       THEN /\ result' = "AlreadyClosed"
            /\ UNCHANGED collected
       ELSE /\ Len(collected) < MaxReq
            /\ result' = "ok"
            /\ collected' = Append(collected, [v |-> in, bits |-> bits])
    /\ UNCHANGED <<kvChecker, nbCheckers, deferred, closed, lookups, hints,
                   constraints, nbWires, optLog, finalizeErr, ret, handle>>
    /\ UNCHANGED <<optVars, hintVars, expVars>>

\* builder.NewHint: nbOutputs fresh internal wires, starting at the next free id
NewHint(nbOutputs, wire) == [j \in 1..nbOutputs |-> wire + j - 1]

\* mutant: the limbs of a request are put in front of the earlier ones
appendLimbsInFront(decomposed, limbs) == limbs \o decomposed

\* decomposed = append(decomposed, limbs...)
appendLimbs(decomposed, limbs) == decomposed \o limbs

\* composed = sum_j limbs[j] * base^j   (j counted from 0 in the code)
composeTerms(limbs, base) ==
    [j \in 1..Len(limbs) |-> [wire |-> limbs[j], coeff |-> Pow(base, j - 1)]]

\* the loop over c.collected: one hint and one equality constraint per request
RECURSIVE decomposeLoop(_, _, _, _)
decomposeLoop(i, coll, baseLength, st) ==
    IF i > Len(coll) THEN st
    ELSE LET nbLimbs == decompSize(coll[i].bits, baseLength)
             limbs == NewHint(nbLimbs, st.nbWires)
             base == Lsh1(baseLength)
             hint == [nbOutputs |-> nbLimbs, bits |-> coll[i].bits,
                      baseLength |-> baseLength, v |-> coll[i].v,
                      outputs |-> limbs]
             eq == [terms |-> composeTerms(limbs, base), v |-> coll[i].v]
         IN decomposeLoop(i + 1, coll, baseLength,
                [hints |-> Append(st.hints, hint),
                 constraints |-> Append(st.constraints, eq),
                 decomposed |-> appendLimbs(st.decomposed, limbs),
                 nbWires |-> st.nbWires + nbLimbs])

\* coefficient id of the constant one in the builder's coefficient table
CoeffIdOne == 1

\* builder.ToCanonicalVariable on a hint output: a one-term linear expression
ToCanonicalVariable(wire) == <<[CID |-> CoeffIdOne, VID |-> wire]>>

\* the loop over decomposed; failAt = k > 0: the k-th entry is not a
\* LinearExpression and the loop returns the error there
resolveLoop(decomposed, failAt) ==
    LET n == IF failAt = 0 THEN Len(decomposed) ELSE failAt - 1
    IN [k \in 1..n |-> ToCanonicalVariable(decomposed[k])]

TotalLimbs(coll) == nbDecomposedLoop(1, getOptimalBasewidth(coll), coll)

\* mutant: the closed flag is not tested
finalizeNeverNoop(isClosed) == FALSE

\* mutant: the empty batch is not tested
finalizeNeverEmpty(coll) == FALSE

\* if c.closed { return nil }
finalizeIsNoop(isClosed) == isClosed

\* if len(c.collected) == 0 { return nil }
finalizeIsEmpty(coll) == Len(coll) = 0

handleVarunaRangeCheck(failAt) ==
    /\ deferred > 0
    /\ lastOp' = "Finalize"
    /\ IF finalizeIsNoop(closed)
       THEN /\ failAt = 0
            /\ result' = "ok"
            /\ UNCHANGED <<closed, lookups, hints, constraints, nbWires,
                           optLog, finalizeErr>>
       ELSE /\ closed' = TRUE
            /\ IF finalizeIsEmpty(collected)
               THEN /\ failAt = 0
                    /\ result' = "ok"
                    /\ finalizeErr' = "ok"
                    /\ UNCHANGED <<lookups, hints, constraints, nbWires, optLog>>
               ELSE LET baseLength == getOptimalBasewidth(collected)
                        st == decomposeLoop(1, collected, baseLength,
                                  [hints |-> hints, constraints |-> constraints,
                                   decomposed |-> <<>>, nbWires |-> nbWires])
                        nbTable == Lsh1(baseLength)
                    IN /\ failAt <= Len(st.decomposed)
                       /\ optLog' = Append(optLog, baseLength)
                       /\ hints' = st.hints
                       /\ constraints' = st.constraints
                       /\ nbWires' = st.nbWires
                       /\ lookups' = [NbTable |-> nbTable,
                                      A |-> resolveLoop(st.decomposed, failAt)]
                       /\ result' = IF failAt = 0 THEN "ok"
                                                  ELSE "UnresolvableVariable"
                       /\ finalizeErr' = result'
    /\ UNCHANGED <<kvChecker, nbCheckers, deferred, collected, ret, handle>>
    /\ UNCHANGED <<optVars, hintVars, expVars>>

\* mutant: the closed flag is not tested
GetLookupByBuilderAnyState ==
    /\ lastOp' = "GetLookup"
    /\ IF ~kvChecker
       THEN result' = "NotFound" /\ UNCHANGED ret
       ELSE result' = "ok" /\ ret' = <<lookups>>
    /\ UNCHANGED <<kvChecker, nbCheckers, deferred, collected, closed, lookups,
                   hints, constraints, nbWires, optLog, finalizeErr, handle>>
    /\ UNCHANGED <<optVars, hintVars, expVars>>

GetLookupByBuilder ==
    /\ lastOp' = "GetLookup"
    /\ IF ~kvChecker
       THEN result' = "NotFound" /\ UNCHANGED ret
       ELSE IF ~closed
            THEN result' = "NotClosed" /\ UNCHANGED ret
            ELSE result' = "ok" /\ ret' = <<lookups>>
    /\ UNCHANGED <<kvChecker, nbCheckers, deferred, collected, closed, lookups,
                   hints, constraints, nbWires, optLog, finalizeErr, handle>>
    /\ UNCHANGED <<optVars, hintVars, expVars>>

Next ==
    \/ NewVarunaRangechecker
    \/ \E in \in InputVars, bits \in CheckBits : Check(in, bits)
    \/ \E failAt \in 0..MaxFailAt : handleVarunaRangeCheck(failAt)
    \/ GetLookupByBuilder

Spec == Init /\ [][Next]_vars

----------------------------------------------------------------------------
(* optimalWidth as a pure function of the batch *)

MaxOptCalls == 2     \* SpecOpt: invocations on the same batch

RECURSIVE Batches(_)
Batches(n) ==
    IF n = 0 THEN {<<>>}
    ELSE LET shorter == Batches(n - 1)
         IN shorter \cup {Append(b, [v |-> 1, bits |-> x]) :
                            b \in {c \in shorter : Len(c) = n - 1}, x \in OptBits}

InitOpt ==
    /\ CollectorInit /\ HintIdle /\ ExpIdle
    /\ optIn \in Batches(MaxOptReq) \ {<<>>}
    /\ optOut = <<>>

CallOptimalWidth ==
    /\ Len(optOut) < MaxOptCalls
    /\ optOut' = Append(optOut, optimalWidth(optIn))
    /\ UNCHANGED <<optIn, collectorVars, hintVars, expVars>>

SpecOpt == InitOpt /\ [][CallOptimalWidth]_vars

----------------------------------------------------------------------------
(* DecomposeHint as a pure function *)

LimbSizes == MinWidth..(EndWidth - 1)

IsUint64(x) == x >= 0

\* mutant: the remainder is not shifted out
RshNone(x, n) == x

\* tmp.Rsh(tmp, n)
Rsh(x, n) == x \div Pow(2, n)

\* the loop over outputs: outputs[i] = tmp mod base; tmp >>= limbSize
RECURSIVE decomposeHintLoop(_, _, _, _, _)
decomposeHintLoop(i, nbOutputs, tmp, base, limbSize) ==
    IF ~(i < nbOutputs) THEN <<>>
    ELSE <<tmp % base>> \o
         decomposeHintLoop(i + 1, nbOutputs, Rsh(tmp, limbSize), base, limbSize)

\* inputs: <<varSize, limbSize, val>>; outputs: nbOutputs preallocated
\* integers, zero before the call
DecomposeHint(inputs, nbOutputs) ==
    LET untouched == [i \in 1..nbOutputs |-> 0]
    IN IF Len(inputs) # 3
       THEN [err |-> "input must be 3 elements", outputs |-> untouched]
       ELSE IF ~IsUint64(inputs[1]) \/ ~IsUint64(inputs[2])
       THEN [err |-> "first two inputs have to be uint64", outputs |-> untouched]
       ELSE LET varSize == inputs[1]
                limbSize == inputs[2]
                val == inputs[3]
                nbLimbs == decompSize(varSize, limbSize)
            IN IF nbOutputs # nbLimbs
               THEN [err |-> "ArityMismatch", outputs |-> untouched]
               ELSE [err |-> "ok",
                     outputs |-> decomposeHintLoop(0, nbOutputs, val,
                                                   Lsh1(limbSize), limbSize)]

InitHint ==
    /\ CollectorInit /\ OptIdle /\ ExpIdle
    /\ \E varSize \in 1..MaxHintBits, limbSize \in LimbSizes :
         \E val \in 0..(Pow(2, varSize + 1) - 1), extra \in {0, 1} :
            hintIn = [inputs |-> <<varSize, limbSize, val>>,
                      nbOutputs |-> decompSize(varSize, limbSize) + extra]
    /\ hintOut = <<>>

CallDecomposeHint ==
    /\ hintOut = <<>>
    /\ hintOut' = <<DecomposeHint(hintIn.inputs, hintIn.nbOutputs)>>
    /\ UNCHANGED <<hintIn, collectorVars, optVars, expVars>>

SpecHint == InitHint /\ [][CallDecomposeHint]_vars

----------------------------------------------------------------------------
(* The export helpers *)

\* fr.Modulus(), scaled; elements are kept in Montgomery form x * R mod q
Modulus == 13
MontgomeryR == 16

toMont(x) == (x * MontgomeryR) % Modulus

\* fr.Element.Bits(): the regular (non-Montgomery) value of the element
Bits(z) ==
    LET rInv == CHOOSE r \in 1..(Modulus - 1) : (r * MontgomeryR) % Modulus = 1
    IN (z * rInv) % Modulus

\* r1cs.GetCoefficient(cid): the coefficient table, ids counted from 0
Coefficients == <<toMont(0), toMont(1), toMont(2), toMont(Modulus - 1), toMont(5)>>
GetCoefficient(cid) == Coefficients[cid + 1]

Term(cid, vid) == [CID |-> cid, VID |-> vid]

\* linear expressions a Lookup may hold (variable ids distinct within one)
LinExprs == { <<Term(1, 1)>>, <<Term(3, 2)>>, <<Term(4, 3)>>,
              <<Term(1, 1), Term(4, 2)>>, <<Term(2, 2), Term(3, 1)>> }

TableSizes == {0, 4, 8}
WitnessVals == {toMont(0), toMont(5), toMont(Modulus - 1)}

RECURSIVE SeqsUpTo(_, _)
SeqsUpTo(S, n) ==
    IF n = 0 THEN {<<>>}
    ELSE LET shorter == SeqsUpTo(S, n - 1)
         IN shorter \cup {Append(q, x) : q \in {c \in shorter : Len(c) = n - 1}, x \in S}

IoOutcomes == [create : BOOLEAN, write : BOOLEAN, close : BOOLEAN]

\* os.Create (error dropped), Marshal, Write, Close (error dropped).  Write on
\* the nil file of a failed Create returns an error; Close is reached only
\* after a successful Write.  dropped: the failures whose error value the
\* code discards.
writeFile(io) ==
    IF ~io.create
    THEN [err |-> "write", created |-> FALSE, written |-> "none",
          closeCalled |-> FALSE, dropped |-> {"create"}]
    ELSE IF ~io.write
    THEN [err |-> "write", created |-> TRUE, written |-> "partial",
          closeCalled |-> FALSE, dropped |-> {}]
    ELSE [err |-> "ok", created |-> TRUE, written |-> "all",
          closeCalled |-> TRUE,
          dropped |-> IF io.close THEN {} ELSE {"close"}]

\* for _, v := range solution.W[1:]
assignmentFirstIndex == 1

assignmentVariables(W) ==
    [i \in 1..(Len(W) - assignmentFirstIndex) |-> Bits(W[i + assignmentFirstIndex])]

\* export_utils.go
SerializeAssignment ==
    /\ expIn.fn = "assignment" /\ expOut = <<>>
    /\ LET raw == [Variables |-> assignmentVariables(expIn.W),
                   PrimaryInputSize |-> 0,
                   AuxiliaryInputSize |-> 0]
           f == writeFile(expIn.io)
       IN expOut' = <<[fn |-> "SerializeAssignment", raw |-> raw,
                       publicInputCount |-> raw.PrimaryInputSize,
                       err |-> f.err, file |-> f]>>
    /\ UNCHANGED <<expIn, collectorVars, optVars, hintVars>>

\* the variant taking the constraint system (unnamed/part_001)
SerializeAssignmentR1CS ==
    /\ expIn.fn = "assignment" /\ expOut = <<>>
    /\ LET raw == [Variables |-> [i \in 1..Len(expIn.W) |-> Bits(expIn.W[i])],
                   NumPublicInputs |-> expIn.nbPublic]
           f == writeFile(expIn.io)
       IN expOut' = <<[fn |-> "SerializeAssignmentR1CS", raw |-> raw,
                       publicInputCount |-> raw.NumPublicInputs,
                       err |-> f.err, file |-> f]>>
    /\ UNCHANGED <<expIn, collectorVars, optVars, hintVars>>

\* mutant: the loop also emits a row for i = NbTable
lookupTableInclusive(nbTable) == [i \in 1..(nbTable + 1) |-> <<i - 1, 0, 0>>]

\* for i := 0; i < lookup.NbTable; i++ { append [3]uint32{uint32(i), 0, 0} }
lookupTable(nbTable) == [i \in 1..nbTable |-> <<i - 1, 0, 0>>]

\* for _, term := range lc { c.A[term.VID] = GetCoefficient(term.CID).Bits() }
RECURSIVE termMapLoop(_, _, _)
termMapLoop(lc, i, m) ==
    IF i > Len(lc) THEN m
    ELSE LET vid == lc[i].VID
             e == Bits(GetCoefficient(lc[i].CID))
         IN termMapLoop(lc, i + 1,
                [x \in (DOMAIN m) \cup {vid} |-> IF x = vid THEN e ELSE m[x]])

lookupConstraint(lc) == [A |-> termMapLoop(lc, 1, <<>>), B |-> <<>>, C |-> <<>>]

SerializeLookup ==
    /\ expIn.fn = "lookup" /\ expOut = <<>>
    /\ LET raw == [Table |-> lookupTable(expIn.lookup.NbTable),
                   Constraints |-> [k \in 1..Len(expIn.lookup.A) |->
                                        lookupConstraint(expIn.lookup.A[k])]]
           f == writeFile(expIn.io)
       IN expOut' = <<[fn |-> "SerializeLookup", raw |-> raw,
                       err |-> f.err, file |-> f]>>
    /\ UNCHANGED <<expIn, collectorVars, optVars, hintVars>>

\* constraint rows a system may hold
R1CRows == { [L |-> <<Term(1, 1)>>, R |-> <<Term(1, 2)>>, O |-> <<Term(1, 3)>>],
             [L |-> <<Term(2, 1), Term(3, 2)>>, R |-> <<Term(1, 0)>>,
              O |-> <<Term(4, 3)>>] }

\* if bi.Cmp(fr.Modulus()) != -1 { panic }
termOutOfRange(lc) ==
    \E i \in 1..Len(lc) : ~(Bits(GetCoefficient(lc[i].CID)) < Modulus)

r1csConstraint(r1c) ==
    [A |-> termMapLoop(r1c.L, 1, <<>>),
     B |-> termMapLoop(r1c.R, 1, <<>>),
     C |-> termMapLoop(r1c.O, 1, <<>>)]

SerializeR1CS ==
    /\ expIn.fn = "r1cs" /\ expOut = <<>>
    /\ LET rows == expIn.r1cs
           raw == [k \in 1..Len(rows) |-> r1csConstraint(rows[k])]
           f == writeFile(expIn.io)
       IN IF \E k \in 1..Len(rows) :
                termOutOfRange(rows[k].L) \/ termOutOfRange(rows[k].R)
                    \/ termOutOfRange(rows[k].O)
          THEN expOut' = <<[fn |-> "SerializeR1CS", raw |-> <<>>,
                            err |-> "FieldElementOutOfRange",
                            file |-> [err |-> "none", created |-> FALSE,
                                      written |-> "none", closeCalled |-> FALSE,
                                      dropped |-> {}]]>>
          ELSE expOut' = <<[fn |-> "SerializeR1CS", raw |-> raw,
                            err |-> f.err, file |-> f]>>
    /\ UNCHANGED <<expIn, collectorVars, optVars, hintVars>>

InitExport ==
    /\ CollectorInit /\ OptIdle /\ HintIdle
    /\ expOut = <<>>
    /\ \/ \E rest \in SeqsUpTo(WitnessVals, MaxW - 1), io \in IoOutcomes :
            LET W == <<toMont(1)>> \o rest
            IN \E nbPublic \in 1..Len(W) :
                  expIn = [fn |-> "assignment", W |-> W, nbPublic |-> nbPublic,
                           io |-> io]
       \/ \E n \in TableSizes, A \in SeqsUpTo(LinExprs, MaxMembers), io \in IoOutcomes :
            expIn = [fn |-> "lookup", lookup |-> [NbTable |-> n, A |-> A], io |-> io]
       \/ \E rows \in SeqsUpTo(R1CRows, MaxMembers), io \in IoOutcomes :
            expIn = [fn |-> "r1cs", r1cs |-> rows, io |-> io]

NextExport ==
    \/ SerializeAssignment
    \/ SerializeAssignmentR1CS
    \/ SerializeLookup
    \/ SerializeR1CS

SpecExport == InitExport /\ [][NextExport]_vars

----------------------------------------------------------------------------
(* Properties of the collector *)

\* ceil(a / b), stated without the code's rounding trick
CeilDiv(a, b) == CHOOSE k \in 0..a : k * b >= a /\ (k - 1) * b < a

RECURSIVE SumCeil(_, _, _)
SumCeil(coll, n, w) ==
    IF n = 0 THEN 0 ELSE SumCeil(coll, n - 1, w) + CeilDiv(coll[n].bits, w)

CountBits(coll, b) == Cardinality({i \in 1..Len(coll) : coll[i].bits = b})

\* the batch of the end-to-end scenario: bit widths {8, 8, 16} in any order
IsScenarioBatch ==
    Len(collected) = 3 /\ CountBits(collected, 8) = 2 /\ CountBits(collected, 16) = 1

FinalizedOk == closed /\ finalizeErr = "ok"

\* C1 as stated: for the batch {8, 8, 16} Finalize selects limb width 4 and
\* leaves a Lookup of 8 members with tableSize 16.
C1_Original ==
    (FinalizedOk /\ IsScenarioBatch) =>
        (optLog = <<4>> /\ Len(lookups.A) = 8 /\ lookups.NbTable = 16)

\* C1 amended: for the batch {8, 8, 16} Finalize selects limb width 2 (cost
\* 4 + 16 + 3 + 1 = 24, the minimum over 2..17, tied with width 3 and won by the
\* smaller width) and leaves a Lookup of 4 + 4 + 8 = 16 members, tableSize 4.
C1_ScenarioWidth2 ==
    (FinalizedOk /\ IsScenarioBatch) =>
        (optLog = <<2>> /\ Len(lookups.A) = 16 /\ lookups.NbTable = 4)

C1_Witness == FinalizedOk /\ IsScenarioBatch

IsPrefix(s, t) == Len(s) <= Len(t) /\ SubSeq(t, 1, Len(s)) = s

\* C3: a Check on a closed collector fails with AlreadyClosed and leaves the
\* request list and the Lookup as they were; a Check on an open collector
\* appends exactly the given request at the end and changes nothing else.
C3_CheckOpenOrClosed ==
    [][lastOp' = "Check" =>
        IF closed
        THEN /\ result' = "AlreadyClosed"
             /\ UNCHANGED <<collected, lookups, closed, hints, constraints>>
        ELSE /\ result' = "ok"
             /\ Len(collected') = Len(collected) + 1
             /\ IsPrefix(collected, collected')
             /\ collected'[Len(collected')].bits \in CheckBits
             /\ UNCHANGED <<lookups, closed, hints, constraints, nbWires,
                            optLog, kvChecker, deferred>>]_vars

C3_Witness ==
    lastOp = "Check" /\ result = "AlreadyClosed" /\ Len(collected) = 2
        /\ Len(lookups.A) > 0

\* C4: a Finalize on a closed collector returns successfully, emits no
\* constraint and no hint and leaves the Lookup as the first Finalize left
\* it; a closed collector stays closed.
C4_FinalizeIdempotent ==
    [][/\ closed => closed'
       /\ (lastOp' = "Finalize" /\ closed) =>
            /\ result' = "ok"
            /\ UNCHANGED <<lookups, constraints, hints, optLog, collected,
                           finalizeErr>>]_vars

\* a Lookup was obtained (so the collector was closed) and Finalize ran again
C4_Witness ==
    lastOp = "Finalize" /\ ret = <<lookups>> /\ Len(lookups.A) > 0

\* C5: with the collector open GetLookup fails with NotClosed and hands out
\* nothing; it returns the Lookup only when the collector is closed.
C5_GetLookupNeedsClosed ==
    /\ (lastOp = "GetLookup" /\ kvChecker /\ ~closed) =>
            (result = "NotClosed" /\ ret = <<>>)
    /\ (lastOp = "GetLookup" /\ result = "ok") => (closed /\ ret = <<lookups>>)
    /\ ret # <<>> => closed

C5_Witness ==
    lastOp = "GetLookup" /\ result = "NotClosed" /\ Len(collected) >= 2

\* first member index of request i, less one
Offset(coll, i, w) == SumCeil(coll, i - 1, w)

AllOutputs == UNION {{hints[i].outputs[j] : j \in 1..Len(hints[i].outputs)} :
                        i \in 1..Len(hints)}

\* C6: after a successful Finalize of a non-empty batch with chosen width w,
\* tableSize = 2^w and the members are, request by request in collection
\* order, the ceil(bits_i / w) limbs of each request, least significant
\* first (the limb with coefficient (2^w)^j is the j-th of its request).
C6_LookupLayout ==
    (FinalizedOk /\ Len(collected) > 0) =>
        /\ Len(optLog) = 1
        /\ LET w == optLog[1]
           IN /\ lookups.NbTable = Pow(2, w)
              /\ Len(lookups.A) = SumCeil(collected, Len(collected), w)
              /\ Len(hints) = Len(collected)
              /\ Len(constraints) = Len(collected)
              /\ Cardinality(AllOutputs) = Len(lookups.A)
              /\ \A i \in 1..Len(collected) :
                    /\ hints[i].v = collected[i].v
                    /\ hints[i].bits = collected[i].bits
                    /\ constraints[i].v = collected[i].v
                    /\ Len(hints[i].outputs) = CeilDiv(collected[i].bits, w)
                    /\ Len(constraints[i].terms) = CeilDiv(collected[i].bits, w)
                    /\ \A j \in 1..CeilDiv(collected[i].bits, w) :
                          /\ constraints[i].terms[j] =
                                [wire |-> hints[i].outputs[j],
                                 coeff |-> Pow(Pow(2, w), j - 1)]
                          /\ lookups.A[Offset(collected, i, w) + j] =
                                <<[CID |-> CoeffIdOne,
                                   VID |-> hints[i].outputs[j]]>>

C6_Witness ==
    /\ FinalizedOk /\ Len(collected) = 3
    /\ collected[1].bits = 24 /\ collected[2].bits = 16 /\ collected[3].bits = 8
    /\ optLog = <<3>>

\* C7: the first Finalize of a collector with no request closes it, returns
\* successfully, emits no constraint, calls neither the optimizer nor the
\* hint and leaves the Lookup empty (tableSize 0, no member).
C7_EmptyBatch ==
    [][(lastOp' = "Finalize" /\ ~closed /\ Len(collected) = 0) =>
            /\ closed'
            /\ result' = "ok"
            /\ finalizeErr' = "ok"
            /\ lookups' = EmptyLookup
            /\ UNCHANGED <<constraints, hints, optLog, nbWires>>
            /\ constraints = <<>> /\ hints = <<>> /\ optLog = <<>>]_vars

C7_Witness ==
    lastOp = "Finalize" /\ closed /\ Len(collected) = 0 /\ ret = <<>>

----------------------------------------------------------------------------
(* Properties of optimalWidth and DecomposeHint *)

Cost(w, batch) == Pow(2, w) + SumCeil(batch, Len(batch), w) + Len(batch) + 1

\* C2: on a non-empty batch optimalWidth returns a width in 2..17 of minimal
\* cost 2^w + sum_i ceil(bits_i / w) + numRequests + 1, the smallest of the
\* widths of that cost, and returns it again when called again.
C2_OptimalWidth ==
    \A n \in 1..Len(optOut) :
        /\ optOut[n] \in 2..17
        /\ \A w \in 2..17 :
              /\ Cost(optOut[n], optIn) <= Cost(w, optIn)
              /\ Cost(w, optIn) = Cost(optOut[n], optIn) => optOut[n] <= w
        /\ optOut[n] = optOut[1]

\* a batch on which widths 2 and 3 cost the same, called twice
C2_Witness ==
    /\ Len(optOut) = 2 /\ Len(optIn) >= 1
    /\ Cost(2, optIn) = Cost(3, optIn) /\ optOut[1] = 2

RECURSIVE Recompose(_, _, _)
Recompose(limbs, n, base) ==
    IF n = 0 THEN 0
    ELSE Recompose(limbs, n - 1, base) + limbs[n] * Pow(base, n - 1)

\* C8: for a value below 2^bitWidth and ceil(bitWidth / limbWidth) outputs,
\* DecomposeHint succeeds, every limb lies in [0, 2^limbWidth) and
\* sum_i limb_i * (2^limbWidth)^i is the value.
C8_DecomposeRoundTrip ==
    \A k \in 1..Len(hintOut) :
        LET varSize == hintIn.inputs[1]
            limbSize == hintIn.inputs[2]
            val == hintIn.inputs[3]
            out == hintOut[k]
        IN (val < Pow(2, varSize) /\ hintIn.nbOutputs = CeilDiv(varSize, limbSize)) =>
              /\ out.err = "ok"
              /\ Len(out.outputs) = CeilDiv(varSize, limbSize)
              /\ \A i \in 1..Len(out.outputs) :
                    out.outputs[i] >= 0 /\ out.outputs[i] < Pow(2, limbSize)
              /\ Recompose(out.outputs, Len(out.outputs), Pow(2, limbSize)) = val

\* a value of three limbs, the top one partial
C8_Witness ==
    /\ hintOut # <<>>
    /\ hintIn.inputs = <<5, 2, 27>>
    /\ hintIn.nbOutputs = 3
    /\ hintOut[1].outputs = <<3, 2, 1>>

----------------------------------------------------------------------------
(* Properties of the export helpers *)

\* C9 as stated: the witness export holds the N-1 elements of indices
\* 1..N-1, in order, and its publicInputCount is the builder's count of
\* public variables.
C9_WitnessExport ==
    \A k \in 1..Len(expOut) :
        expIn.fn = "assignment" =>
            /\ Len(expOut[k].raw.Variables) = Len(expIn.W) - 1
            /\ \A i \in 1..(Len(expIn.W) - 1) :
                  i <= Len(expOut[k].raw.Variables)
                     => expOut[k].raw.Variables[i] = Bits(expIn.W[i + 1])
            /\ expOut[k].publicInputCount = expIn.nbPublic

VIDs(lc) == {lc[i].VID : i \in 1..Len(lc)}

\* C10: the lookup export holds tableSize rows, the i-th being (i, 0, 0) for
\* i = 0..tableSize-1, then one row per member in member order whose A side
\* maps each variable of the member to the regular form of the coefficient
\* its term names, and whose B and C sides are empty.
C10_LookupExport ==
    \A k \in 1..Len(expOut) :
        expIn.fn = "lookup" =>
            LET raw == expOut[k].raw
                lk == expIn.lookup
            IN /\ Len(raw.Table) = lk.NbTable
               /\ \A i \in 0..(lk.NbTable - 1) : raw.Table[i + 1] = <<i, 0, 0>>
               /\ Len(raw.Constraints) = Len(lk.A)
               /\ \A m \in 1..Len(lk.A) :
                     /\ DOMAIN raw.Constraints[m].A = VIDs(lk.A[m])
                     /\ \A t \in 1..Len(lk.A[m]) :
                           toMont(raw.Constraints[m].A[lk.A[m][t].VID])
                              = Coefficients[lk.A[m][t].CID + 1]
                     /\ DOMAIN raw.Constraints[m].B = {}
                     /\ DOMAIN raw.Constraints[m].C = {}
               /\ expOut[k].err = "ok" => expOut[k].file.written = "all"

C10_Witness ==
    /\ expOut # <<>> /\ expIn.fn = "lookup"
    /\ expIn.lookup.NbTable = 4
    /\ expIn.lookup.A = << <<Term(1, 1), Term(4, 2)>>, <<Term(3, 2)>> >>
    /\ expOut[1].err = "ok"
    /\ Len(expOut[1].raw.Constraints) = 2

\* C11 as stated: an export returns an error whenever creating the file or
\* writing it fails, returns success only when the file was created and
\* written in full, and lets no creation, write or close failure pass as
\* success.
C11_IoFailuresSurface ==
    \A k \in 1..Len(expOut) :
        LET io == expIn.io
            out == expOut[k]
        IN /\ (~io.create \/ ~io.write) => out.err # "ok"
           /\ out.err = "ok" => (out.file.created /\ out.file.written = "all")
           /\ (out.file.closeCalled /\ ~io.close) => out.err # "ok"

----------------------------------------------------------------------------
(* Further properties of the collector *)

\* C12 as stated: a Lookup that GetLookup handed out is the empty Lookup of
\* an empty batch or holds all sum_i ceil(bits_i / w) members with tableSize
\* 2^w; after a Finalize that failed with UnresolvableVariable no Lookup is
\* handed out.
C12_NoPartialLookup ==
    /\ ret # <<>> =>
          \/ Len(collected) = 0 /\ ret[1] = EmptyLookup
          \/ /\ Len(collected) > 0 /\ Len(optLog) = 1
             /\ ret[1].NbTable = Pow(2, optLog[1])
             /\ Len(ret[1].A) = SumCeil(collected, Len(collected), optLog[1])
    /\ finalizeErr = "UnresolvableVariable" => ret = <<>>

\* C13: every NewVarunaRangechecker call of a build returns the one collector
\* of the build, whatever Check calls came before it; only the first call
\* allocates a collector and registers the finalize callback, and no call
\* touches the requests collected so far, so the batch Finalize decomposes is
\* every request passed to Check.
C13_SingleCollector ==
    /\ [](/\ nbCheckers <= 1
          /\ deferred = nbCheckers
          /\ (kvChecker <=> nbCheckers = 1)
          /\ handle \in {0, 1}
          /\ (lastOp = "New" => (handle = 1 /\ kvChecker /\ deferred = 1))
          /\ (FinalizedOk =>
                /\ Len(hints) = Len(collected)
                /\ \A i \in 1..Len(collected) :
                      hints[i].v = collected[i].v /\ hints[i].bits = collected[i].bits))
    /\ [][lastOp' = "New" =>
            /\ UNCHANGED <<collected, closed, lookups, hints, constraints>>
            /\ kvChecker => UNCHANGED <<nbCheckers, deferred>>]_vars

\* a later call, made after two Check calls through the first handle
C13_Witness ==
    lastOp = "New" /\ Len(collected) = 2 /\ ~closed /\ handle = 1

====
